---------------------------- MODULE Spec2Model ----------------------------
(***************************************************************************)
(* A model of the GRP2 archive reader (src/main/src/main.rs), the MDL      *)
(* chunk scanner and grouper (src/main/src/mdl.rs) and the TFD texture     *)
(* decoder (src/main/src/tfd.rs).                                          *)
(*                                                                         *)
(* Byte buffers are sequences of 0..255; the byte at offset o of buffer b  *)
(* is b[o+1].  Every operation has three kinds of outcome: "Ok", "Err"     *)
(* (a returned anyhow error) and "Panic" (the thread aborts: an index or   *)
(* slice out of range, unwrap of None, or an arithmetic overflow in a      *)
(* build with overflow checks).                                            *)
(***************************************************************************)
EXTENDS Integers, Sequences, FiniteSets, TLC

VARIABLES
    \* ---- GRP archive (main.rs)
    grp_in,          \* the parameters the synthetic container was built from
    file_data,       \* GrpFile.file_data: the bytes read from the file
    overflow_checks, \* build profile: TRUE = overflow panics, FALSE = wraps
    grp_pc,          \* "start" | "parsed" | "read" | "extract"
    pack,            \* outcome of GrpFile::parse
    rd,              \* the read_entry call just made: entry and outcome
    ex,              \* the running extract_entry call
    fs_dirs,         \* the output path's parent directories exist
    fs_file,         \* the file at the output path: <<>> (absent) or <<bytes>>
    \* ---- MDL chunk scan (mdl.rs)
    mdl_in,          \* the parameters the synthetic buffer was built from
    mdl_bytes,       \* parse_all_chunks: bytes, the buffer scanned
    mdl_off,         \* parse_all_chunks: off, the cursor
    mdl_chunks,      \* parse_all_chunks: chunks, those recorded so far
    mdl_pc,          \* "scan" | "done"
    mdl_result,      \* the outcome of parse_all_chunks
    \* ---- group_models (mdl.rs)
    gm_chunks,       \* group_models: chunks, the argument
    gm_groups,       \* group_models: the groups returned
    gm_pc,           \* "call" | "done"
    \* ---- texture decode (tfd.rs)
    tfd_in,          \* the parameters the data blob's length was computed from
    tfd_len,         \* decode: tfd.len()
    tfd_z,           \* decode: what zstd::stream::decode_all answers for tfd
    tfh,             \* decode: the header blob
    tfd_pc,          \* "call" | "done"
    tfd_guess,       \* decode: the inference accepted, (top, _mips, fp)
    tfd_out,         \* the outcome of decode
    \* ---- BC1 blocks (tfd.rs)
    bc_src,          \* decode_bc1_top_mip_to_rgba: src
    bc_w,            \* decode_bc1_top_mip_to_rgba: w (= h)
    bc_pc,           \* "call" | "done"
    bc_out,          \* the outcome of decode_bc1_top_mip_to_rgba
    \* ---- half floats (mdl.rs)
    f16_in,          \* f16_to_f32: u
    f16_pc,          \* "call" | "done"
    f16_out,         \* the value f16_to_f32 returns
    \* ---- model viewer (mdl_viewer.rs)
    view_sel,        \* render_current: g.lods[self.selected_lod], the chunk drawn
    view_out         \* the outcome of render_current: the edges drawn, or a panic

grpVars == <<grp_in, file_data, overflow_checks, grp_pc, pack, rd, ex, fs_dirs, fs_file>>

mdlVars == <<mdl_in, mdl_bytes, mdl_off, mdl_chunks, mdl_pc, mdl_result>>

gmVars == <<gm_chunks, gm_groups, gm_pc>>

tfdVars == <<tfd_in, tfd_len, tfd_z, tfh, tfd_pc, tfd_guess, tfd_out>>

bcVars == <<bc_src, bc_w, bc_pc, bc_out>>

f16Vars == <<f16_in, f16_pc, f16_out>>

viewVars == <<view_sel, view_out>>

vars == <<grpVars, mdlVars, gmVars, tfdVars, bcVars, f16Vars, viewVars>>

-----------------------------------------------------------------------------
(* Bounds of the model *)

MaxFiles == 2
MaxNameLen == 2
MaxEntrySize == 5
MaxVerts == 2
MaxIdx == 4
MaxChunks == 3

-----------------------------------------------------------------------------
(* Helpers on byte buffers *)

Min(a, b) == IF a < b THEN a ELSE b

Max(a, b) == IF a < b THEN b ELSE a

RECURSIVE SumSeq(_)
SumSeq(s) == IF s = <<>> THEN 0 ELSE Head(s) + SumSeq(Tail(s))

RECURSIVE Concat(_)
Concat(ss) == IF ss = <<>> THEN <<>> ELSE Head(ss) \o Concat(Tail(ss))

Fill(n, b) == [i \in 1..n |-> b]

\* u32::from_le_bytes / to_le_bytes
LE32(b, off) == b[off + 1] + 256 * b[off + 2] + 65536 * b[off + 3] + 16777216 * b[off + 4]

ToLE32(v) == << v % 256, (v \div 256) % 256, (v \div 65536) % 256, (v \div 16777216) % 256 >>

Ok(v) == [tag |-> "Ok", v |-> v, why |-> ""]

Err(why) == [tag |-> "Err", v |-> <<>>, why |-> why]

Panic(why) == [tag |-> "Panic", v |-> <<>>, why |-> why]

-----------------------------------------------------------------------------
(* main.rs: the binary field readers *)

ZSTD_MAGIC == << 40, 181, 47, 253 >>

GRP2 == << 71, 82, 80, 50 >>

get_u32(data, off) ==
    IF off + 4 > Len(data) THEN Err("EOF reading u32")
    ELSE Ok(LE32(data, off))

\* The offset of the first zero byte at or after off, or Len(buf) if none.
RECURSIVE CstrEnd(_, _)
CstrEnd(buf, end) ==
    IF end < Len(buf) /\ buf[end + 1] # 0 THEN CstrEnd(buf, end + 1) ELSE end

IsCont(b) == b >= 128 /\ b <= 191

\* std::str::from_utf8: the well-formed byte sequences of the Unicode standard.
RECURSIVE Utf8Ok(_)
Utf8Ok(s) ==
    IF s = <<>> THEN TRUE
    ELSE LET b == s[1]
             n == Len(s)
         IN  IF b < 128 THEN Utf8Ok(Tail(s))
             ELSE IF b >= 194 /\ b <= 223
                  THEN n >= 2 /\ IsCont(s[2]) /\ Utf8Ok(SubSeq(s, 3, n))
             ELSE IF b >= 224 /\ b <= 239
                  THEN /\ n >= 3
                       /\ IsCont(s[2]) /\ IsCont(s[3])
                       /\ (b = 224 => s[2] >= 160)
                       /\ (b = 237 => s[2] <= 159)
                       /\ Utf8Ok(SubSeq(s, 4, n))
             ELSE IF b >= 240 /\ b <= 244
                  THEN /\ n >= 4
                       /\ IsCont(s[2]) /\ IsCont(s[3]) /\ IsCont(s[4])
                       /\ (b = 240 => s[2] >= 144)
                       /\ (b = 244 => s[2] <= 143)
                       /\ Utf8Ok(SubSeq(s, 5, n))
             ELSE FALSE

read_cstr(buf, off) ==
    LET end == CstrEnd(buf, off)
    IN  IF end = Len(buf) THEN Err("unterminated string")
        \* off > buf.len(): the loop never runs and &buf[off..end] is out of range
        ELSE IF end > Len(buf) THEN Panic("slice start out of range")
        ELSE IF ~Utf8Ok(SubSeq(buf, off + 1, end)) THEN Err("invalid utf-8")
        ELSE Ok(SubSeq(buf, off + 1, end))

-----------------------------------------------------------------------------
(* main.rs: GrpFile::parse *)

\* a - b on u32.  With overflow checks a borrow panics; without, the result
\* wraps to 2^32 + a - b, which is kept as its residue a - b < 0 (the value
\* is then larger than any buffer length the model holds).
U32Sub(a, b, checks) ==
    IF a >= b THEN Ok(a - b)
    ELSE IF checks THEN Panic("attempt to subtract with overflow")
    ELSE Ok(a - b)

\* four magic bytes whatever the entry's size
MagicLenIgnoringSize(size) == 4

\* 4.min(size as usize) for a size that may be a wrapped residue
Min4(size) == IF size < 0 THEN 4 ELSE Min(4, size)

\* (start + size) as usize > len
EndsBeyond(start, size, len) == size < 0 \/ start + size > len

\* The first result of a sequence of results that is not Ok, or Ok(values).
RECURSIVE Collect(_, _)
Collect(rs, acc) ==
    IF rs = <<>> THEN Ok(acc)
    ELSE IF Head(rs).tag # "Ok" THEN Head(rs)
    ELSE Collect(Tail(rs), Append(acc, Head(rs).v))

\* lines 86-97 and 103-114: one entry from its start and the next boundary
MkEntry(data, i, name, start, next, checks) ==
    LET sz == U32Sub(next, start, checks)
    IN  IF sz.tag # "Ok" THEN sz
        ELSE IF start + Min4(sz.v) > Len(data)
             THEN Panic("range end index out of range for slice")
        ELSE LET magic == SubSeq(data, start + 1, start + Min4(sz.v))
             IN  Ok([index |-> i, full_path |-> name, start |-> start, size |-> sz.v,
                     compression |-> IF magic = ZSTD_MAGIC THEN "Zstd" ELSE "Raw"])

\* line 66: the data index table is located from the last name
DataIndexStart(offs, names) == offs[Len(offs)] + Len(names[Len(names)]) + 5

\* a size measured to the end of the file for every entry
NextBoundaryToEnd(begins, i, n, len) == len

\* lines 77-114: the boundary after entry i is the next start, or the file length
NextBoundary(begins, i, n, len) == IF i < n THEN begins[i + 1] ELSE len

GrpParse(data, checks) ==
    IF Len(data) < 4 THEN Panic("range end index 4 out of range for slice")
    ELSE IF SubSeq(data, 1, 4) # GRP2 THEN Err("Not a GRP2 file")
    ELSE LET hs == get_u32(data, 4)
             fc == get_u32(data, 20)
         IN
         IF hs.tag # "Ok" THEN hs
         ELSE IF fc.tag # "Ok" THEN fc
         ELSE LET n == fc.v
                  offs == Collect([i \in 1..n |-> get_u32(data, 64 + 4 * (i - 1))], <<>>)
              IN
              IF offs.tag # "Ok" THEN offs
              ELSE LET names == Collect([i \in 1..n |-> read_cstr(data, offs.v[i])], <<>>)
                   IN
                   IF names.tag # "Ok" THEN names
                   ELSE IF n = 0 THEN Panic("called Option::unwrap() on a None value")
                   ELSE LET dis == DataIndexStart(offs.v, names.v)
                            begins == Collect([i \in 1..n |-> get_u32(data, dis + 12 * (i - 1))], <<>>)
                        IN
                        IF begins.tag # "Ok" THEN begins
                        ELSE LET es == Collect([i \in 1..n |->
                                          MkEntry(data, i - 1, names.v[i], begins.v[i],
                                                  NextBoundary(begins.v, i, n, Len(data)), checks)], <<>>)
                             IN
                             IF es.tag # "Ok" THEN es
                             ELSE Ok([file_data |-> data, header_size |-> hs.v,
                                      file_count |-> n, data_start |-> begins.v[1],
                                      entries |-> es.v])

-----------------------------------------------------------------------------
(* main.rs: GrpFile::read_entry and GrpFile::extract_entry *)

\* What the zstd stream decoder (an external crate) may answer for a frame:
\* an I/O error, or the decoded bytes.
ZstdOutcomes == { Err("zstd"), Ok(<<>>), Ok(<<1, 2, 3>>) }

\* line 128 / line 149: &self.file_data[start .. start + size]
EntrySlice(data, e) ==
    IF EndsBeyond(e.start, e.size, Len(data))
    THEN Panic("range end index out of range for slice")
    ELSE Ok(SubSeq(data, e.start + 1, e.start + e.size))

\* z is the decoder's answer, used for a Zstd entry only
read_entry(gf, e, z) ==
    LET bytes == EntrySlice(gf.file_data, e)
    IN  IF bytes.tag # "Ok" THEN bytes
        ELSE IF e.compression = "Zstd" THEN z
        ELSE Ok(bytes.v)

\* a decoder error that is dropped: what was decoded so far is written
ExtractDecodedLossy(e, bytes, z) ==
    IF e.compression = "Zstd" THEN (IF z.tag = "Ok" THEN z ELSE Ok(<<>>)) ELSE Ok(bytes)

\* lines 134-144: what reaches fs::write, or the error that returns before it
ExtractDecoded(e, bytes, z) ==
    IF e.compression = "Zstd" THEN z ELSE Ok(bytes)

\* fs::write(path, out): the file afterwards.  A failed write leaves the file
\* as it was (it could not be opened) or truncated to a prefix of out.
WriteOutcomes(old, out) ==
    { [ok |-> TRUE, file |-> <<out>>], [ok |-> FALSE, file |-> old] }
        \cup { [ok |-> FALSE, file |-> <<SubSeq(out, 1, k)>>] : k \in 0..(Len(out) - 1) }

NoRead == [entry |-> <<>>, out |-> Err("not read")]

ExIdle == [pc |-> "idle", entry |-> <<>>, bytes |-> <<>>, out |-> <<>>,
           file0 |-> <<>>, trace |-> <<>>, zfail |-> FALSE, result |-> Ok(<<>>)]

-----------------------------------------------------------------------------
(* Synthetic containers: the inputs of GrpFile::parse *)

GenNameBase(n) == 64 + 4 * n

GenNameOff(p, i) == GenNameBase(p.n) + (i - 1) * (p.l + 1)

GenIndexBase(p) == GenNameOff(p, p.n) + p.l + 5

GenDataBase(p) == GenIndexBase(p) + 12 * p.n

GenStart(p, i) == GenDataBase(p) + SumSeq(SubSeq(p.sizes, 1, i - 1))

GenLen(p) == GenDataBase(p) + SumSeq(p.sizes)

GenName(p, i) == IF p.fault = "utf8" /\ i = 1 THEN Fill(p.l, 255) ELSE Fill(p.l, 96 + i)

GenData(p, i) ==
    IF p.z = i THEN SubSeq(ZSTD_MAGIC \o Fill(p.sizes[i], 16 + i), 1, p.sizes[i])
    ELSE Fill(p.sizes[i], 16 + i)

StoredNameOff(p, i) ==
    IF p.fault = "nameoff" /\ i = p.n THEN GenLen(p) + 10 ELSE GenNameOff(p, i)

StoredStart(p, i) ==
    IF p.fault = "descending" /\ p.n >= 2 /\ i <= 2 THEN GenStart(p, 3 - i)
    ELSE IF p.fault = "beyond" /\ i = p.n THEN GenLen(p) + 4
    ELSE GenStart(p, i)

GrpImage(p) ==
    LET magic == IF p.fault = "magic" THEN << 71, 82, 80, 49 >> ELSE GRP2
        count == IF p.fault = "count0" THEN 0 ELSE p.n
        header == magic \o ToLE32(64) \o Fill(12, 0) \o ToLE32(count) \o Fill(40, 0)
        table == Concat([i \in 1..p.n |-> ToLE32(StoredNameOff(p, i))])
        names == Concat([i \in 1..p.n |-> GenName(p, i) \o <<0>>])
        index == Concat([i \in 1..p.n |-> ToLE32(StoredStart(p, i)) \o ToLE32(i) \o ToLE32(9)])
        data  == Concat([i \in 1..p.n |-> GenData(p, i)])
        whole == header \o table \o names \o Fill(4, 7) \o index \o data
    IN  IF p.fault = "cut" THEN SubSeq(whole, 1, Min(p.cut, Len(whole))) ELSE whole

Faults == { "none", "magic", "count0", "descending", "beyond", "nameoff", "utf8" }

CutPoints(p) == { 0, 3, 6, 22, 66, GenNameBase(p.n) + p.l, GenIndexBase(p) + 2,
                  GenDataBase(p), GenLen(p) - 1 }

GrpInputs ==
    LET shapes == UNION { { [n |-> n, l |-> l, sizes |-> sz, z |-> z, fault |-> "none", cut |-> 0] :
                              l \in 1..MaxNameLen,
                              sz \in [1..n -> {0, 3, MaxEntrySize}],
                              z \in 0..n } : n \in 1..MaxFiles }
    IN  { [s EXCEPT !.fault = f] : s \in shapes, f \in Faults }
            \cup UNION { { [s EXCEPT !.fault = "cut", !.cut = c] : c \in CutPoints(s) } : s \in shapes }

-----------------------------------------------------------------------------
(* The archive: state machine *)

OldFile == << <<9, 9>> >>

GrpStart ==
    /\ grp_in \in GrpInputs
    /\ file_data = GrpImage(grp_in)
    /\ overflow_checks \in BOOLEAN
    /\ grp_pc = "start"
    /\ pack = Err("not parsed")
    /\ rd = NoRead
    /\ ex = ExIdle
    /\ fs_dirs \in BOOLEAN
    /\ fs_file \in IF fs_dirs THEN { <<>>, OldFile } ELSE { <<>> }

\* GrpFile::parse (the bytes are those fs::read returned)
Parse ==
    /\ grp_pc = "start"
    /\ pack' = GrpParse(file_data, overflow_checks)
    /\ grp_pc' = IF pack'.tag = "Ok" THEN "parsed" ELSE "failed"
    /\ UNCHANGED <<grp_in, file_data, overflow_checks, rd, ex, fs_dirs, fs_file>>
    /\ UNCHANGED <<mdlVars, gmVars, tfdVars, bcVars, f16Vars, viewVars>>

\* GrpFile::read_entry on an entry of the parsed archive
ReadEntry ==
    /\ grp_pc = "parsed"
    /\ ex.pc = "idle"
    /\ \E i \in 1..Len(pack.v.entries), z \in ZstdOutcomes :
          rd' = [entry |-> pack.v.entries[i], out |-> read_entry(pack.v, pack.v.entries[i], z)]
    /\ UNCHANGED <<grp_in, file_data, overflow_checks, grp_pc, pack, ex, fs_dirs, fs_file>>
    /\ UNCHANGED <<mdlVars, gmVars, tfdVars, bcVars, f16Vars, viewVars>>

\* GrpFile::extract_entry, line 128: the entry's bytes are sliced
ExtractBegin ==
    /\ grp_pc = "parsed"
    /\ ex.pc \in {"idle", "done"}
    /\ \E i \in 1..Len(pack.v.entries) :
          LET e == pack.v.entries[i]
              bytes == EntrySlice(pack.v.file_data, e)
          IN  ex' = IF bytes.tag = "Ok"
                    THEN [pc |-> "mkdir", entry |-> e, bytes |-> bytes.v, out |-> <<>>,
                          file0 |-> fs_file, trace |-> <<>>, zfail |-> FALSE, result |-> Ok(<<>>)]
                    ELSE [pc |-> "done", entry |-> e, bytes |-> <<>>, out |-> <<>>,
                          file0 |-> fs_file, trace |-> <<>>, zfail |-> FALSE, result |-> bytes]
    /\ rd' = NoRead
    /\ UNCHANGED <<grp_in, file_data, overflow_checks, grp_pc, pack, fs_dirs, fs_file>>
    /\ UNCHANGED <<mdlVars, gmVars, tfdVars, bcVars, f16Vars, viewVars>>

\* lines 130-132: fs::create_dir_all(parent)?
ExtractMkdir ==
    /\ ex.pc = "mkdir"
    /\ \E ok \in BOOLEAN :
          /\ fs_dirs' = (fs_dirs \/ ok)
          /\ ex' = IF fs_dirs'
                   THEN [ex EXCEPT !.pc = "decode", !.trace = Append(@, "mkdir")]
                   ELSE [ex EXCEPT !.pc = "done", !.trace = Append(@, "mkdir"),
                                   !.result = Err("create_dir_all")]
    /\ UNCHANGED <<grp_in, file_data, overflow_checks, grp_pc, pack, rd, fs_file>>
    /\ UNCHANGED <<mdlVars, gmVars, tfdVars, bcVars, f16Vars, viewVars>>

\* lines 134-138 and 141: the bytes to write are decoded
ExtractDecode ==
    /\ ex.pc = "decode"
    /\ \E z \in ZstdOutcomes :
          LET d == ExtractDecoded(ex.entry, ex.bytes, z)
              zf == ex.entry.compression = "Zstd" /\ z.tag # "Ok"
          IN  ex' = IF d.tag = "Ok"
                    THEN [ex EXCEPT !.pc = "write", !.out = d.v, !.zfail = zf,
                                    !.trace = Append(@, "decode")]
                    ELSE [ex EXCEPT !.pc = "done", !.zfail = zf, !.trace = Append(@, "decode"),
                                    !.result = Err("decode")]
    /\ UNCHANGED <<grp_in, file_data, overflow_checks, grp_pc, pack, rd, fs_dirs, fs_file>>
    /\ UNCHANGED <<mdlVars, gmVars, tfdVars, bcVars, f16Vars, viewVars>>

\* lines 139 and 142: fs::write(&out_path, out)?
ExtractWrite ==
    /\ ex.pc = "write"
    /\ \E w \in WriteOutcomes(fs_file, ex.out) :
          /\ fs_file' = w.file
          /\ ex' = [ex EXCEPT !.pc = "done", !.trace = Append(@, "write"),
                              !.result = IF w.ok THEN Ok(<<>>) ELSE Err("write")]
    /\ UNCHANGED <<grp_in, file_data, overflow_checks, grp_pc, pack, rd, fs_dirs>>
    /\ UNCHANGED <<mdlVars, gmVars, tfdVars, bcVars, f16Vars, viewVars>>

GrpNext == Parse \/ ReadEntry \/ ExtractBegin \/ ExtractMkdir \/ ExtractDecode \/ ExtractWrite

-----------------------------------------------------------------------------
(* mdl.rs: the field readers and the half-float conversion *)

read_u32_le(b, o) == LE32(b, o)

read_u16_le(b, o) == b[o + 1] + 256 * b[o + 2]

\* f32::from_le_bytes: the float is kept as its four bytes (its bit pattern)
read_f32_le(b, o) == << b[o + 1], b[o + 2], b[o + 3], b[o + 4] >>

\* an exponent bias of 16
PowiExpBias16(e) == e - 16

\* line 42: the argument of powi for a normal number
PowiExp(e) == e - 15

\* f16_to_f32.  A finite result is kept exactly as (-1)^neg * m * 2^e:
\* 2^-14 * (f/1024) = f * 2^-24 and 2^(e-15) * (1 + f/1024) = (1024+f) * 2^(e-25),
\* both exact in f32.
f16_to_f32(u) ==
    LET s == (u \div 32768) % 2
        e == (u \div 1024) % 32
        f == u % 1024
    IN  IF e = 0
        THEN IF f = 0 THEN [kind |-> "zero", neg |-> s # 0, m |-> 0, e |-> 0]
             ELSE [kind |-> "finite", neg |-> s # 0, m |-> f, e |-> -24]
        ELSE IF e = 31
        THEN IF f # 0 THEN [kind |-> "nan", neg |-> FALSE, m |-> 0, e |-> 0]
             ELSE [kind |-> "inf", neg |-> s # 0, m |-> 0, e |-> 0]
        ELSE [kind |-> "finite", neg |-> s # 0, m |-> 1024 + f, e |-> PowiExp(e) - 10]

\* Every 16-bit pattern
F16Inputs == 0..65535

F16Start == f16_in \in F16Inputs /\ f16_pc = "call" /\ f16_out = <<>>

Convert ==
    /\ f16_pc = "call"
    /\ f16_out' = f16_to_f32(f16_in)
    /\ f16_pc' = "done"
    /\ UNCHANGED f16_in
    /\ UNCHANGED <<grpVars, mdlVars, gmVars, tfdVars, bcVars, viewVars>>

F16Next == Convert

-----------------------------------------------------------------------------
(* mdl.rs: parse_all_chunks *)

HeaderLen == 272

\* a cursor that does not advance
ScanStrideZero == 16 - 16

ScanStride == 16

\* lines 63-68: the signature test at cursor o
SigOk(b, o) ==
    /\ b[o + 156 + 1] = 1
    /\ b[o + 157 + 1] = 0
    /\ b[o + 158 + 1] \in {4, 5}
    /\ b[o + 159 + 1] >= 4 /\ b[o + 159 + 1] <= 64

FmtTag(b, o) == b[o + 158 + 1]

Stride(b, o) == b[o + 159 + 1]

\* the vertex count read from the index count's field
VCountFromICount(b, o) == read_u32_le(b, o + 168)

VCount(b, o) == read_u32_le(b, o + 164)

ICount(b, o) == read_u32_le(b, o + 168)

VAddr(o) == o + HeaderLen

\* lines 73-74; usize is 64 bits wide, so checked_add never saturates here
IAddr(b, o) == VAddr(o) + Stride(b, o) * VCount(b, o)

\* an end that leaves the index array out
IEndWithoutIndices(b, o) == VAddr(o) + Stride(b, o) * VCount(b, o)

IEnd(b, o) == IAddr(b, o) + 2 * ICount(b, o)

\* line 75
BoundsOk(b, o) == IEnd(b, o) <= Len(b) /\ VAddr(o) < Len(b) /\ IAddr(b, o) <= Len(b)

\* lines 89-98: the bytes one position takes
PosBytes(fmt) == IF fmt = 4 THEN 12 ELSE 6

\* lines 87-100: one past the highest offset the vertex loop indexes
VertexReadEnd(b, o) ==
    IF VCount(b, o) = 0 THEN 0
    ELSE VAddr(o) + (VCount(b, o) - 1) * Stride(b, o) + PosBytes(FmtTag(b, o))

ReadPos(b, base, fmt) ==
    IF fmt = 4
    THEN << read_f32_le(b, base), read_f32_le(b, base + 4), read_f32_le(b, base + 8) >>
    ELSE << f16_to_f32(read_u16_le(b, base)), f16_to_f32(read_u16_le(b, base + 2)),
            f16_to_f32(read_u16_le(b, base + 4)) >>

\* lines 102-110: triangles while j + 6 <= 2 * icount
ReadIndices(b, iaddr, icount) ==
    [t \in 1..((2 * icount) \div 6) |->
        << read_u16_le(b, iaddr + 6 * (t - 1)),
           read_u16_le(b, iaddr + 6 * (t - 1) + 2),
           read_u16_le(b, iaddr + 6 * (t - 1) + 4) >>]

\* lines 76-116: the chunk decoded at cursor o (all its reads are in range)
DecodeChunk(b, o) ==
    [header_off |-> o,
     stride |-> Stride(b, o),
     fmt_tag |-> FmtTag(b, o),
     vcount |-> VCount(b, o),
     icount |-> ICount(b, o),
     codes |-> << read_u16_le(b, o + 100), read_u16_le(b, o + 104), read_u16_le(b, o + 108) >>,
     offs_bytes |-> << read_u16_le(b, o + 102) \div 256, read_u16_le(b, o + 106) \div 256,
                       read_u16_le(b, o + 110) \div 256 >>,
     vertices |-> [i \in 1..VCount(b, o) |->
                      ReadPos(b, VAddr(o) + (i - 1) * Stride(b, o), FmtTag(b, o))],
     indices |-> ReadIndices(b, IAddr(b, o), ICount(b, o))]

\* a result that is Ok even when nothing was found
ScanResultAlwaysOk(cs) == Ok(cs)

\* lines 124-128
ScanResult(cs) == IF cs = <<>> THEN Err("No MDL chunks found") ELSE Ok(cs)

-----------------------------------------------------------------------------
(* Synthetic buffers: the inputs of parse_all_chunks *)

\* A chunk header: zero except the descriptor pairs, the signature and the counts.
GenHeader(p) ==
    [k \in 1..HeaderLen |->
        CASE k - 1 = 100 -> p.code
          [] k - 1 = 103 -> 12
          [] k - 1 = 104 -> 2
          [] k - 1 = 108 -> 3
          [] k - 1 = 156 -> 1
          [] k - 1 = 158 -> p.fmt
          [] k - 1 = 159 -> p.stride
          [] k - 1 = 164 -> p.vcount
          [] k - 1 = 168 -> p.icount
          [] OTHER -> 0]

\* Vertex bytes: 0, 60 pairs are the half float 1.0 and four of them 2^-7 as f32.
GenVertices(p) == [k \in 1..(p.stride * p.vcount) |-> IF k % 2 = 0 THEN 60 ELSE 0]

\* Index bytes: u16 indices 0, 1, 2, ... (p.ibase shifts them out of range)
GenIndices(p) == [k \in 1..(2 * p.icount) |-> IF k % 2 = 1 THEN p.ibase + (k \div 2) ELSE 0]

\* Padding of n bytes; a decoy puts a signature where the cursor at the
\* padding's first byte looks for one.
GenPad(n, fill, decoy) ==
    [k \in 1..n |->
        IF decoy /\ k - 1 = 156 THEN 1
        ELSE IF decoy /\ k - 1 = 157 THEN 0
        ELSE IF decoy /\ k - 1 = 158 THEN 4
        ELSE IF decoy /\ k - 1 = 159 THEN 16
        ELSE fill]

MdlImage(p) ==
    GenPad(p.c, p.fill, p.decoy = "before") \o GenHeader(p) \o GenVertices(p)
        \o GenIndices(p) \o GenPad(p.after, p.fill, p.decoy = "after")

MdlInputs ==
    { [c |-> c, fmt |-> fmt, stride |-> st, vcount |-> vc, icount |-> ic, code |-> 7,
       ibase |-> ib, after |-> af, fill |-> fl, decoy |-> dc] :
        c \in {0, 8, 16, 176}, fmt \in {4, 5}, st \in {4, 12}, vc \in 0..MaxVerts,
        ic \in {0, MaxIdx - 1, MaxIdx}, ib \in {0, 1}, af \in {0, 1, 16, 288}, fl \in {0, 1},
        dc \in {"none", "before", "after"} }

-----------------------------------------------------------------------------
(* The chunk scan: state machine *)

MdlStart ==
    /\ mdl_in \in MdlInputs
    /\ mdl_bytes = MdlImage(mdl_in)
    /\ mdl_off = 0
    /\ mdl_chunks = <<>>
    /\ mdl_pc = "scan"
    /\ mdl_result = Err("running")

\* One iteration of the while loop of parse_all_chunks (lines 61-123).
ScanStep ==
    /\ mdl_pc = "scan"
    /\ mdl_off + HeaderLen <= Len(mdl_bytes)
    /\ IF SigOk(mdl_bytes, mdl_off) /\ BoundsOk(mdl_bytes, mdl_off)
       THEN IF VertexReadEnd(mdl_bytes, mdl_off) > Len(mdl_bytes)
            THEN /\ mdl_pc' = "done"
                 /\ mdl_result' = Panic("index out of bounds")
                 /\ UNCHANGED <<mdl_off, mdl_chunks>>
            ELSE /\ mdl_chunks' = Append(mdl_chunks, DecodeChunk(mdl_bytes, mdl_off))
                 /\ mdl_off' = IEnd(mdl_bytes, mdl_off)
                 /\ UNCHANGED <<mdl_pc, mdl_result>>
       ELSE /\ mdl_off' = mdl_off + ScanStride
            /\ UNCHANGED <<mdl_chunks, mdl_pc, mdl_result>>
    /\ UNCHANGED <<mdl_in, mdl_bytes>>
    /\ UNCHANGED <<grpVars, gmVars, tfdVars, bcVars, f16Vars, viewVars>>

\* The loop condition fails: lines 124-128.
ScanEnd ==
    /\ mdl_pc = "scan"
    /\ mdl_off + HeaderLen > Len(mdl_bytes)
    /\ mdl_pc' = "done"
    /\ mdl_result' = ScanResult(mdl_chunks)
    /\ UNCHANGED <<mdl_in, mdl_bytes, mdl_off, mdl_chunks>>
    /\ UNCHANGED <<grpVars, gmVars, tfdVars, bcVars, f16Vars, viewVars>>



-----------------------------------------------------------------------------
(* mdl.rs: group_models *)

KeyOf(ch) == [fmt_tag |-> ch.fmt_tag, stride |-> ch.stride, codes |-> ch.codes]

\* [u16; 3] compared lexicographically
RECURSIVE SeqLess(_, _)
SeqLess(a, b) ==
    IF a = <<>> \/ b = <<>> THEN a = <<>> /\ b # <<>>
    ELSE Head(a) < Head(b) \/ (Head(a) = Head(b) /\ SeqLess(Tail(a), Tail(b)))

\* #[derive(PartialOrd, Ord)] on ModelKey: by fmt_tag, then stride, then codes
KeyLess(a, b) ==
    \/ a.fmt_tag < b.fmt_tag
    \/ a.fmt_tag = b.fmt_tag /\ a.stride < b.stride
    \/ a.fmt_tag = b.fmt_tag /\ a.stride = b.stride /\ SeqLess(a.codes, b.codes)

\* map.entry(key).or_default().push(item) on a BTreeMap kept as its entries
\* in ascending key order
MapPush(map, key, item) ==
    LET below == SelectSeq(map, LAMBDA en : KeyLess(en.key, key))
        same  == SelectSeq(map, LAMBDA en : en.key = key)
        above == SelectSeq(map, LAMBDA en : KeyLess(key, en.key))
    IN  below
          \o << [key |-> key,
                 list |-> IF same = <<>> THEN << item >> ELSE Append(same[1].list, item)] >>
          \o above

\* lines 134-137; idx counts from 0
RECURSIVE BuildMap(_, _, _)
BuildMap(cs, idx, map) ==
    IF idx >= Len(cs) THEN map
    ELSE BuildMap(cs, idx + 1,
                  MapPush(map, KeyOf(cs[idx + 1]), << idx, cs[idx + 1].vcount >>))

\* an ascending comparison
StaysBeforeAsc(a, b) == a[2] <= b[2]

\* line 141: list.sort_by(|a, b| b.1.cmp(&a.1)) leaves a before b when a.1 >= b.1
StaysBefore(a, b) == a[2] >= b[2]

\* sort_by is a stable sort: insertion after every element that stays before
RECURSIVE SortBy(_, _)
SortBy(list, acc) ==
    IF list = <<>> THEN acc
    ELSE LET x == Head(list)
             n == Cardinality({ k \in 1..Len(acc) : \A j \in 1..k : StaysBefore(acc[j], x) })
         IN  SortBy(Tail(list), SubSeq(acc, 1, n) \o << x >> \o SubSeq(acc, n + 1, Len(acc)))

group_models(cs) ==
    LET map == BuildMap(cs, 0, <<>>)
    IN  [g \in 1..Len(map) |->
            LET sorted == SortBy(map[g].list, <<>>)
            IN  [key |-> map[g].key, lods |-> [k \in 1..Len(sorted) |-> sorted[k][1]]]]

\* The chunk lists group_models is applied to
GmKeys == { [fmt_tag |-> 4, stride |-> 12, codes |-> <<7, 2, 3>>],
            [fmt_tag |-> 4, stride |-> 12, codes |-> <<7, 1, 9>>],
            [fmt_tag |-> 5, stride |-> 4, codes |-> <<0, 0, 0>>] }

GmChunk(k, vc) ==
    [header_off |-> 0, stride |-> k.stride, fmt_tag |-> k.fmt_tag, vcount |-> vc, icount |-> 0,
     codes |-> k.codes, offs_bytes |-> <<0, 0, 0>>, vertices |-> <<>>, indices |-> <<>>]

GmInputs ==
    UNION { [1..n -> { GmChunk(k, vc) : k \in GmKeys, vc \in {10, 30, 50} }] : n \in 0..MaxChunks }

GmStart ==
    /\ gm_chunks \in GmInputs
    /\ gm_groups = <<>>
    /\ gm_pc = "call"

GroupModels ==
    /\ gm_pc = "call"
    /\ gm_groups' = group_models(gm_chunks)
    /\ gm_pc' = "done"
    /\ UNCHANGED gm_chunks
    /\ UNCHANGED <<grpVars, mdlVars, tfdVars, bcVars, f16Vars, viewVars>>

GmNext == GroupModels

-----------------------------------------------------------------------------
(* mdl_viewer.rs: ModelViewer::render_current on the chunks of a scan *)

\* lines 108-114: the edges of the triangles, each as (smaller, larger)
Edges(ch) ==
    UNION { { << Min(t[1], t[2]), Max(t[1], t[2]) >>,
              << Min(t[2], t[3]), Max(t[2], t[3]) >>,
              << Min(t[3], t[1]), Max(t[3], t[1]) >> } :
            t \in { ch.indices[k] : k \in 1..Len(ch.indices) } }

\* the BTreeSet's iteration order
RECURSIVE SortedEdges(_)
SortedEdges(S) ==
    IF S = {} THEN <<>>
    ELSE LET lo == CHOOSE x \in S : \A y \in S : x[1] < y[1] \/ (x[1] = y[1] /\ x[2] <= y[2])
         IN  <<lo>> \o SortedEdges(S \ {lo})

\* lines 117-134: screen holds one point per vertex; screen[a] and screen[b]
\* are indexed for every edge; the outcome is the lines drawn
render_current(ch) ==
    IF \E ed \in Edges(ch) : ed[1] >= Len(ch.vertices) \/ ed[2] >= Len(ch.vertices)
    THEN Panic("index out of bounds")
    ELSE Ok(SortedEdges(Edges(ch)))

\* ModelViewer::new groups the chunks (main.rs:295-297); the combo boxes select
\* any group and any of its LODs, and ui draws that chunk.
Render ==
    /\ mdl_pc = "done"
    /\ mdl_result.tag = "Ok"
    /\ view_out.why = "not rendered"
    /\ \E g \in 1..Len(group_models(mdl_result.v)) :
          \E l \in 1..Len(group_models(mdl_result.v)[g].lods) :
             /\ view_sel' = group_models(mdl_result.v)[g].lods[l]
             /\ view_out' = render_current(mdl_result.v[group_models(mdl_result.v)[g].lods[l] + 1])
    /\ UNCHANGED <<mdlVars, grpVars, gmVars, tfdVars, bcVars, f16Vars>>

MdlNext == ScanStep \/ ScanEnd \/ Render

-----------------------------------------------------------------------------
(* tfd.rs: size inference *)

RECURSIVE Pow2(_)
Pow2(n) == IF n = 0 THEN 1 ELSE 2 * Pow2(n - 1)

\* a level whose dimension is not clamped to 1
MipBlocksUnclamped(top, m) ==
    LET w == top \div Pow2(m)
    IN  ((w + 3) \div 4) * ((w + 3) \div 4)

\* the blocks of mip level m: ((top >> m).max(1) + 3) / 4, squared
MipBlocks(top, m) ==
    LET w == Max(top \div Pow2(m), 1)
    IN  ((w + 3) \div 4) * ((w + 3) \div 4)

RECURSIVE SumLevels(_, _, _)
SumLevels(top, bpb, mips) ==
    IF mips = 0 THEN 0
    ELSE SumLevels(top, bpb, mips - 1) + MipBlocks(top, mips - 1) * bpb

sum_bc_bytes(top, bpb, mips) == SumLevels(top, bpb, mips)

\* BcFootprint::Bc1_4 = 8, BcFootprint::Bc3_5_7 = 16, in the order searched
Footprints == << 8, 16 >>

\* line 80
Tops == << 4096, 2048, 1024, 512, 256, 128, 64 >>

\* for mips in 1..10
MipCounts == << 1, 2, 3, 4, 5, 6, 7, 8, 9 >>

None == [some |-> FALSE, top |-> 0, mips |-> 0, bpb |-> 0]

Some(top, mips, bpb) == [some |-> TRUE, top |-> top, mips |-> mips, bpb |-> bpb]

\* The candidates in the order the nested loops try them, with their sizes.
GuessTable ==
    [i \in 1..(Len(Footprints) * Len(Tops) * Len(MipCounts)) |->
        LET f == Footprints[((i - 1) \div (Len(Tops) * Len(MipCounts))) + 1]
            t == Tops[(((i - 1) \div Len(MipCounts)) % Len(Tops)) + 1]
            m == MipCounts[((i - 1) % Len(MipCounts)) + 1]
        IN  [bpb |-> f, top |-> t, mips |-> m, total |-> sum_bc_bytes(t, f, m)]]

guess_from_tfd_len(len) ==
    LET hits == { i \in DOMAIN GuessTable : GuessTable[i].total = len }
    IN  IF hits = {} THEN None
        ELSE LET i == CHOOSE j \in hits : \A k \in hits : j <= k
             IN  Some(GuessTable[i].top, GuessTable[i].mips, GuessTable[i].bpb)

RECURSIVE IsPowerOfTwo(_)
IsPowerOfTwo(w) == IF w <= 1 THEN w = 1 ELSE w % 2 = 0 /\ IsPowerOfTwo(w \div 2)

tfh_dim_hint(h) ==
    IF Len(h) >= 164
    THEN LET w == LE32(h, 160)
         IN  IF IsPowerOfTwo(w) /\ w >= 64 /\ w <= 8192 THEN Some(w, 0, 0) ELSE None
    ELSE None

\* a decode that never consults the header
HintSearchNever(h, len) == None

\* lines 29-41: the search constrained to the header's hint
HintSearch(h, len) ==
    LET hint == tfh_dim_hint(h)
    IN  IF ~hint.some THEN None
        ELSE LET hits == { <<f, m>> \in (1..Len(Footprints)) \X (1..Len(MipCounts)) :
                              sum_bc_bytes(hint.top, Footprints[f], MipCounts[m]) = len }
             IN  IF hits = {} THEN None
                 ELSE LET h1 == CHOOSE x \in hits : \A y \in hits :
                                    x[1] < y[1] \/ (x[1] = y[1] /\ x[2] <= y[2])
                      IN  Some(hint.top, MipCounts[h1[2]], Footprints[h1[1]])

-----------------------------------------------------------------------------
(* tfd.rs: decode.  The blob's content steers nothing in decode but the block *)
(* decoders' pixels, so the data is kept as its length.                       *)

\* decode_bc3 / decode_bc5 / decode_bc1: the bytes the block loops index
TopMipBytes(w, h, bpb) == ((w + 3) \div 4) * ((h + 3) \div 4) * bpb

\* lines 101-145 and 158-223 by length: every block is sliced from src
DecodeTopMip(srcLen, w, h, bpb) ==
    IF TopMipBytes(w, h, bpb) > srcLen THEN Panic("range end index out of range for slice")
    ELSE Ok(w * h * 4)

\* lines 19-24: raw.len(); z is decode_all's answer, Err or Ok(length of the
\* decompressed data)
RawLen(len, z) == IF len % 8 # 0 THEN z.v ELSE len

\* lines 28-42: the inference decode accepts, None when it fails or is not reached
TfdInfer(len, z, h) ==
    IF len % 8 # 0 /\ z.tag # "Ok" THEN None
    ELSE LET g == guess_from_tfd_len(RawLen(len, z))
         IN  IF g.some THEN g ELSE HintSearch(h, RawLen(len, z))

TfdDecode(len, z, h) ==
    LET is_compressed == len % 8 # 0
        g == TfdInfer(len, z, h)
    IN  IF is_compressed /\ z.tag # "Ok" THEN Err("zstd")
        ELSE IF ~g.some THEN Err("Cannot infer BC footprint/mips from TFD length")
        ELSE LET rgba == IF is_compressed THEN DecodeTopMip(RawLen(len, z), g.top, g.top, 16)
                         ELSE DecodeTopMip(RawLen(len, z), g.top, g.top, g.bpb)
             IN  IF rgba.tag # "Ok" THEN rgba
                 ELSE Ok([width |-> g.top, height |-> g.top, rgba_len |-> rgba.v])

\* The blobs decode is applied to
TfhImage(hlen, hint) ==
    [k \in 1..hlen |-> IF k - 1 >= 160 /\ k - 1 < 164 THEN ToLE32(hint)[k - 160] ELSE 0]

TfdInputs ==
    { [top |-> t, bpb |-> f, mips |-> m, extra |-> x, mode |-> md, hlen |-> hl, hint |-> hv] :
        t \in {64, 128, 256, 512, 1024, 2048, 4096, 8192}, f \in {8, 16}, m \in 1..9,
        x \in {0, 8}, md \in {"raw", "zstd", "badzstd"},
        hl \in {0, 163, 164}, hv \in {0, 64, 100, 8192, 16384} }

TfdStart ==
    /\ tfd_in \in TfdInputs
    /\ tfd_len = IF tfd_in.mode = "raw"
                 THEN sum_bc_bytes(tfd_in.top, tfd_in.bpb, tfd_in.mips) + tfd_in.extra
                 ELSE 13
    /\ tfd_z = IF tfd_in.mode = "zstd"
               THEN Ok(sum_bc_bytes(tfd_in.top, tfd_in.bpb, tfd_in.mips) + tfd_in.extra)
               ELSE Err("zstd")
    /\ tfh = TfhImage(tfd_in.hlen, tfd_in.hint)
    /\ tfd_pc = "call"
    /\ tfd_guess = None
    /\ tfd_out = Err("running")

Decode ==
    /\ tfd_pc = "call"
    /\ tfd_guess' = TfdInfer(tfd_len, tfd_z, tfh)
    /\ tfd_out' = TfdDecode(tfd_len, tfd_z, tfh)
    /\ tfd_pc' = "done"
    /\ UNCHANGED <<tfd_in, tfd_len, tfd_z, tfh>>
    /\ UNCHANGED <<grpVars, mdlVars, gmVars, bcVars, f16Vars, viewVars>>

TfdNext == Decode

-----------------------------------------------------------------------------
(* tfd.rs: BC1 blocks *)

\* rgb565_to_888
rgb565_to_888(c) ==
    LET r == (c \div 2048) % 32
        g == (c \div 32) % 64
        b == c % 32
    IN  << (r * 255 + 15) \div 31, (g * 255 + 31) \div 63, (b * 255 + 15) \div 31 >>

\* lines 175-202: the palette and whether its last entry is transparent
Bc1Palette(c0, c1) ==
    LET p0 == rgb565_to_888(c0)
        p1 == rgb565_to_888(c1)
    IN  IF c0 > c1
        THEN [pal |-> << p0, p1,
                         [k \in 1..3 |-> (2 * p0[k] + p1[k]) \div 3],
                         [k \in 1..3 |-> (p0[k] + 2 * p1[k]) \div 3] >>,
              use_transparent |-> FALSE]
        ELSE [pal |-> << p0, p1, [k \in 1..3 |-> (p0[k] + p1[k]) \div 2], << 0, 0, 0 >> >>,
              use_transparent |-> TRUE]

\* the texels in an order that walks px before py's rows are done
Bc1TexelColumnMajor(px, py) == 4 * px + py

\* lines 204-207: texel (px, py) is the (4*py + px)-th code shifted out of idx
Bc1Texel(px, py) == 4 * py + px

\* (idx >> 2t) & 3 for the u32 idx read from bytes 4..7 of the block at off;
\* the word is kept as its two 16-bit halves
Bc1Code(src, o, t) ==
    LET lo == src[o + 4 + 1] + 256 * src[o + 5 + 1]
        hi == src[o + 6 + 1] + 256 * src[o + 7 + 1]
    IN  IF t < 8 THEN (lo \div Pow2(2 * t)) % 4 ELSE (hi \div Pow2(2 * (t - 8))) % 4

\* The four output bytes of pixel (x, y): the block (x/4, y/4) is the
\* (by * bw + bx)-th of src, read in sequence.
Bc1Pixel(src, w, x, y) ==
    LET bw == (w + 3) \div 4
        o  == (((y \div 4) * bw) + (x \div 4)) * 8
        c0 == src[o + 1] + 256 * src[o + 2]
        c1 == src[o + 3] + 256 * src[o + 4]
        p  == Bc1Palette(c0, c1)
        code == Bc1Code(src, o, Bc1Texel(x % 4, y % 4))
    IN  p.pal[code + 1] \o << IF p.use_transparent /\ code = 3 THEN 0 ELSE 255 >>

\* decode_bc1_top_mip_to_rgba: out[(y*w + x)*4 ..] for every x < w, y < h
decode_bc1_top_mip_to_rgba(src, w, h) ==
    IF TopMipBytes(w, h, 8) > Len(src) THEN Panic("index out of bounds")
    ELSE Ok([k \in 1..(w * h * 4) |->
                Bc1Pixel(src, w, ((k - 1) \div 4) % w, ((k - 1) \div 4) \div w)[((k - 1) % 4) + 1]])

\* The blocks decoded: c0 runs over every value of each 5:6:5 channel
Le16(v) == << v % 256, v \div 256 >>

Bc1Block(c0, c1, idx) == Le16(c0) \o Le16(c1) \o idx

Bc1Inputs ==
    { [c0 |-> (g % 32) * 2048 + g * 32 + ((g + 7) % 32), c1 |-> c1, idx |-> ix, w |-> w] :
        g \in 0..63, c1 \in {0, 33808, 65535}, ix \in { <<0, 0, 0, 0>>, <<228, 27, 255, 0>>,
                                                       <<255, 255, 255, 255>>, <<27, 228, 78, 177>> },
        w \in {4, 8} }
      \cup { [c0 |-> c, c1 |-> c, idx |-> <<0, 0, 0, 0>>, w |-> 4] : c \in {0, 31, 2016, 63488, 33808, 65535} }

\* one block for a 4x4 image; for 8x8 the block, the block with its endpoints
\* swapped, and both again
Bc1Image(p) ==
    IF p.w = 4 THEN Bc1Block(p.c0, p.c1, p.idx)
    ELSE Bc1Block(p.c0, p.c1, p.idx) \o Bc1Block(p.c1, p.c0, p.idx)
            \o Bc1Block(p.c1, p.c0, p.idx) \o Bc1Block(p.c0, p.c1, p.idx)

BcStart ==
    /\ \E p \in Bc1Inputs : bc_src = Bc1Image(p) /\ bc_w = p.w
    /\ bc_pc = "call"
    /\ bc_out = Err("running")

DecodeBc1 ==
    /\ bc_pc = "call"
    /\ bc_out' = decode_bc1_top_mip_to_rgba(bc_src, bc_w, bc_w)
    /\ bc_pc' = "done"
    /\ UNCHANGED <<bc_src, bc_w>>
    /\ UNCHANGED <<grpVars, mdlVars, gmVars, tfdVars, f16Vars, viewVars>>

BcNext == DecodeBc1

-----------------------------------------------------------------------------
(* Specifications: one per component; the other components stay idle *)

GrpIdle ==
    /\ grp_in = <<>> /\ file_data = <<>> /\ overflow_checks = TRUE /\ grp_pc = "idle"
    /\ pack = Err("not parsed") /\ rd = NoRead /\ ex = ExIdle
    /\ fs_dirs = FALSE /\ fs_file = <<>>

MdlIdle ==
    /\ mdl_in = <<>> /\ mdl_bytes = <<>> /\ mdl_off = 0 /\ mdl_chunks = <<>>
    /\ mdl_pc = "idle" /\ mdl_result = Err("idle")

GmIdle == gm_chunks = <<>> /\ gm_groups = <<>> /\ gm_pc = "idle"

TfdIdle ==
    /\ tfd_in = <<>> /\ tfd_len = 0 /\ tfd_z = Err("idle") /\ tfh = <<>>
    /\ tfd_pc = "idle" /\ tfd_guess = None /\ tfd_out = Err("idle")

BcIdle == bc_src = <<>> /\ bc_w = 0 /\ bc_pc = "idle" /\ bc_out = Err("idle")

F16Idle == f16_in = 0 /\ f16_pc = "idle" /\ f16_out = <<>>

ViewIdle == view_sel = 0 /\ view_out = Err("not rendered")

GrpInit == GrpStart /\ MdlIdle /\ GmIdle /\ TfdIdle /\ BcIdle /\ F16Idle /\ ViewIdle

MdlInit == MdlStart /\ GrpIdle /\ GmIdle /\ TfdIdle /\ BcIdle /\ F16Idle /\ ViewIdle

GmInit == GmStart /\ GrpIdle /\ MdlIdle /\ TfdIdle /\ BcIdle /\ F16Idle /\ ViewIdle

TfdInit == TfdStart /\ GrpIdle /\ MdlIdle /\ GmIdle /\ BcIdle /\ F16Idle /\ ViewIdle

BcInit == BcStart /\ GrpIdle /\ MdlIdle /\ GmIdle /\ TfdIdle /\ F16Idle /\ ViewIdle

F16Init == F16Start /\ GrpIdle /\ MdlIdle /\ GmIdle /\ TfdIdle /\ BcIdle /\ ViewIdle

SpecGrp == GrpInit /\ [][GrpNext]_vars

SpecMdl == MdlInit /\ [][MdlNext]_vars

SpecGroup == GmInit /\ [][GmNext]_vars

SpecTfd == TfdInit /\ [][TfdNext]_vars

SpecBc1 == BcInit /\ [][BcNext]_vars

SpecF16 == F16Init /\ [][F16Next]_vars

\* parse_all_chunks runs on the caller's thread until it returns: a loop
\* iteration that can change the state is taken
SpecMdlFair == MdlInit /\ [][MdlNext]_vars /\ WF_vars(MdlNext)

-----------------------------------------------------------------------------
(* Claims about the archive *)

\* The synthetic container is the well-formed one of its shape: no fault changed a byte.
GrpWellFormed == file_data = GrpImage([grp_in EXCEPT !.fault = "none"])

EntryRange(e) == e.start .. (e.start + e.size - 1)

\* C1: for a well-formed container with N >= 1 entries, parse returns exactly N
\* entries; entry i has index i, the i-th name and the i-th data-index offset as
\* start; each size is the distance to the next start (to the end of the buffer
\* for the last); the ranges are pairwise disjoint and their union is
\* [first start, buffer length).
C1_ParseRecoversEntries ==
    (grp_pc # "start" /\ GrpWellFormed) =>
        /\ pack.tag = "Ok"
        /\ LET es == pack.v.entries
               n == grp_in.n
           IN  /\ Len(es) = n
               /\ \A i \in 1..n :
                     /\ es[i].index = i - 1
                     /\ es[i].full_path = GenName(grp_in, i)
                     /\ es[i].start = GenStart(grp_in, i)
                     /\ es[i].size = IF i < n THEN es[i + 1].start - es[i].start
                                      ELSE Len(file_data) - es[i].start
               /\ \A i, j \in 1..n : i # j => EntryRange(es[i]) \cap EntryRange(es[j]) = {}
               /\ UNION { EntryRange(es[i]) : i \in 1..n } = es[1].start .. (Len(file_data) - 1)

C1_Witness ==
    /\ grp_pc = "parsed" /\ GrpWellFormed
    /\ grp_in.n = 2 /\ grp_in.sizes = <<3, MaxEntrySize>>
    /\ Len(pack.v.entries) = 2
    /\ pack.v.entries[2].size = MaxEntrySize

\* C2: for every input buffer parse returns a complete archive or an explicit
\* failure value; it never aborts.
C2_ParseNeverAborts ==
    grp_pc # "start" => pack.tag \in {"Ok", "Err"}

\* C9: read_entry returns a bounds failure when start + size exceeds the buffer
\* length, and otherwise, for a Raw entry, a copy of exactly the bytes
\* [start, start+size), leaving the archive unchanged.
C9_ReadEntryBounds ==
    rd.entry # <<>> =>
        IF EndsBeyond(rd.entry.start, rd.entry.size, Len(file_data))
        THEN rd.out.tag = "Err"
        ELSE /\ rd.entry.compression = "Raw" =>
                    rd.out = Ok(SubSeq(file_data, rd.entry.start + 1, rd.entry.start + rd.entry.size))
             /\ pack.v.file_data = file_data

IsPrefix(s, t) == Len(s) <= Len(t) /\ s = SubSeq(t, 1, Len(s))

\* C10: extract_entry creates the parent directories, then decodes, then writes;
\* when the decoder fails on a frame-compressed entry the write is never reached
\* and the file at the output path is what it was when the call began.
C10_NoWriteOnDecodeFailure ==
    /\ IsPrefix(ex.trace, << "mkdir", "decode", "write" >>)
    /\ ex.zfail =>
          /\ ex.pc = "done"
          /\ ex.result.tag = "Err"
          /\ ex.trace = << "mkdir", "decode" >>
          /\ fs_file = ex.file0

C10_Witness ==
    /\ ex.zfail
    /\ ex.pc = "done"
    /\ ex.entry.compression = "Zstd"
    /\ ex.file0 = OldFile
    /\ fs_file = OldFile

-----------------------------------------------------------------------------
(* Claims about the chunk scan and the grouping *)

\* The record the buffer was built around is a well-formed one: it holds at
\* least one vertex and its stride holds a whole position.
GenWellFormed(p) ==
    /\ p.stride >= PosBytes(p.fmt)
    /\ p.vcount >= 1

GenIEnd(p) == p.c + HeaderLen + p.stride * p.vcount + 2 * p.icount

\* The cursor positions other than c that a scan finding the record at c visits.
OtherCursors(p, len) ==
    { q \in 0..len : /\ q + HeaderLen <= len
                     /\ \/ q < p.c /\ q % ScanStride = 0
                        \/ q >= GenIEnd(p) /\ (q - GenIEnd(p)) % ScanStride = 0 }

FoundExactly(p) ==
    /\ mdl_result.tag = "Ok"
    /\ Len(mdl_result.v) = 1
    /\ mdl_result.v[1].header_off = p.c
    /\ mdl_result.v[1].vcount = p.vcount
    /\ mdl_result.v[1].icount = p.icount

\* C3 (as stated): one well-formed chunk record at offset c, any padding before
\* and after: the scan returns exactly that chunk, with the stored counts.
C3_AnyPadding ==
    (mdl_pc = "done" /\ GenWellFormed(mdl_in)) => FoundExactly(mdl_in)

\* C3 (amended): the same when c is a multiple of 16 and no other cursor
\* position the scan visits (0, 16, ... below c, and the record's end plus 0,
\* 16, ...) passes the signature test.
C3_AlignedCleanPadding ==
    ( /\ mdl_pc = "done"
      /\ GenWellFormed(mdl_in)
      /\ mdl_in.c % ScanStride = 0
      /\ \A q \in OtherCursors(mdl_in, Len(mdl_bytes)) : ~SigOk(mdl_bytes, q) )
        => FoundExactly(mdl_in)

C3_Witness ==
    /\ mdl_pc = "done"
    /\ GenWellFormed(mdl_in)
    /\ mdl_in.c = 176 /\ mdl_in.after = 288 /\ mdl_in.fill = 1
    /\ mdl_in.vcount = MaxVerts /\ mdl_in.icount = MaxIdx
    /\ \A q \in OtherCursors(mdl_in, Len(mdl_bytes)) : ~SigOk(mdl_bytes, q)
    /\ FoundExactly(mdl_in)

C5_GroupsPartitionAndOrder ==
    gm_pc = "done" =>
        LET n == Len(gm_chunks)
            G == gm_groups
        IN  /\ \A idx \in 0..(n - 1) :
                  /\ Cardinality({ gp \in { <<g, k>> : g \in 1..Len(G), k \in 1..n } :
                                       /\ gp[2] <= Len(G[gp[1]].lods)
                                       /\ G[gp[1]].lods[gp[2]] = idx }) = 1
                  /\ \A g \in 1..Len(G) :
                        (\E k \in 1..Len(G[g].lods) : G[g].lods[k] = idx)
                            => G[g].key = KeyOf(gm_chunks[idx + 1])
            /\ \A g \in 1..Len(G) :
                  /\ G[g].lods # <<>>
                  /\ \A k \in 1..Len(G[g].lods) : G[g].lods[k] \in 0..(n - 1)
                  /\ \A k \in 1..(Len(G[g].lods) - 1) :
                        gm_chunks[G[g].lods[k] + 1].vcount >= gm_chunks[G[g].lods[k + 1] + 1].vcount
            /\ \A g \in 1..(Len(G) - 1) : KeyLess(G[g].key, G[g + 1].key)

\* vertex counts [10, 50, 30] under one key give the LOD order [50, 30, 10]
C5_Witness ==
    /\ gm_pc = "done"
    /\ Len(gm_chunks) = 3
    /\ KeyOf(gm_chunks[1]) = KeyOf(gm_chunks[2]) /\ KeyOf(gm_chunks[2]) = KeyOf(gm_chunks[3])
    /\ << gm_chunks[1].vcount, gm_chunks[2].vcount, gm_chunks[3].vcount >> = << 10, 50, 30 >>
    /\ Len(gm_groups) = 1
    /\ gm_groups[1].lods = << 1, 2, 0 >>

-----------------------------------------------------------------------------
(* Claims about the texture decoder *)

\* C6: size inference inverts the mip-chain size formula: for every top in
\* {64, ..., 4096}, mips in 1..9 and footprint in {8, 16}, a blob of
\* sum_bc_bytes(top, footprint, mips) bytes is inferred as (top, mips,
\* footprint), and a raw one decodes to a top x top RGBA image.
C6_InferenceInvertsSizes ==
    (tfd_pc = "done" /\ tfd_in.mode # "badzstd" /\ tfd_in.extra = 0 /\ tfd_in.top <= 4096) =>
        /\ tfd_guess = Some(tfd_in.top, tfd_in.mips, tfd_in.bpb)
        /\ tfd_in.mode = "raw" =>
              tfd_out = Ok([width |-> tfd_in.top, height |-> tfd_in.top,
                            rgba_len |-> tfd_in.top * tfd_in.top * 4])

C6_Witness ==
    /\ tfd_pc = "done"
    /\ tfd_in.mode = "raw" /\ tfd_in.top = 256 /\ tfd_in.mips = 1 /\ tfd_in.bpb = 16
    /\ tfd_len = 65536
    /\ tfd_guess = Some(256, 1, 16)
    /\ tfd_out = Ok([width |-> 256, height |-> 256, rgba_len |-> 262144])

\* C7: decode returns an image with width = height > 0 and width*height*4 RGBA
\* bytes, or an explicit failure; when the data holds fewer bytes than the top
\* mip level of the accepted inference needs in the decoded format, it fails
\* with an error and does not abort.
C7_DecodeNeverAborts ==
    tfd_pc = "done" =>
        /\ tfd_out.tag \in {"Ok", "Err"}
        /\ tfd_out.tag = "Ok" =>
              /\ tfd_out.v.width = tfd_out.v.height /\ tfd_out.v.width > 0
              /\ tfd_out.v.rgba_len = tfd_out.v.width * tfd_out.v.height * 4
        /\ ( /\ tfd_guess.some
             /\ RawLen(tfd_len, tfd_z) <
                   TopMipBytes(tfd_guess.top, tfd_guess.top,
                               IF tfd_len % 8 # 0 THEN 16 ELSE tfd_guess.bpb) )
              => tfd_out.tag = "Err"

\* round(channel * 255 / channel_max), halves rounded up
RoundExpand(ch, max) == (2 * ch * 255 + max) \div (2 * max)

Expand565(c) ==
    << RoundExpand((c \div 2048) % 32, 31), RoundExpand((c \div 32) % 64, 63),
       RoundExpand(c % 32, 31) >>

\* the 8-byte block of bc_src that covers pixel (x, y)
BlockOf(x, y) == SubSeq(bc_src, 8 * ((y \div 4) * ((bc_w + 3) \div 4) + (x \div 4)) + 1,
                                8 * ((y \div 4) * ((bc_w + 3) \div 4) + (x \div 4)) + 8)

PixelOut(x, y) == SubSeq(bc_out.v, (y * bc_w + x) * 4 + 1, (y * bc_w + x) * 4 + 4)

\* C8: texel (px, py) of a block uses the 2-bit index at bits 2*(4*py+px) of the
\* little-endian index word (bits 2*px of byte 4+py); alpha is 0 exactly when
\* c0 <= c1 and the index is 3; the RGB is the palette entry of the index, with
\* entries 0 and 1 the 5:6:5 endpoints expanded to round(channel*255/max); so
\* c0 = c1 with zero indices gives a uniform opaque tile of the expanded c0.
C8_Bc1BlockDecode ==
    bc_pc = "done" =>
        /\ bc_out.tag = "Ok"
        /\ Len(bc_out.v) = bc_w * bc_w * 4
        /\ \A x, y \in 0..(bc_w - 1) :
              LET blk == BlockOf(x, y)
                  c0 == blk[1] + 256 * blk[2]
                  c1 == blk[3] + 256 * blk[4]
                  e0 == Expand565(c0)
                  e1 == Expand565(c1)
                  ix == (blk[5 + (y % 4)] \div Pow2(2 * (x % 4))) % 4
                  px == PixelOut(x, y)
              IN  /\ px[4] = IF c0 <= c1 /\ ix = 3 THEN 0 ELSE 255
                  /\ ix = 0 => SubSeq(px, 1, 3) = e0
                  /\ ix = 1 => SubSeq(px, 1, 3) = e1
                  /\ (ix = 2 /\ c0 > c1) =>
                        SubSeq(px, 1, 3) = [k \in 1..3 |-> (2 * e0[k] + e1[k]) \div 3]
                  /\ (ix = 3 /\ c0 > c1) =>
                        SubSeq(px, 1, 3) = [k \in 1..3 |-> (e0[k] + 2 * e1[k]) \div 3]
                  /\ (ix = 2 /\ c0 <= c1) =>
                        SubSeq(px, 1, 3) = [k \in 1..3 |-> (e0[k] + e1[k]) \div 2]
                  /\ (c0 = c1 /\ SubSeq(blk, 5, 8) = <<0, 0, 0, 0>>) => px = e0 \o <<255>>

C8_Witness ==
    /\ bc_pc = "done"
    /\ bc_w = 4
    /\ bc_src = Bc1Block(33808, 33808, <<0, 0, 0, 0>>)
    /\ bc_out = Ok([k \in 1..64 |-> << 132, 130, 132, 255 >>[((k - 1) % 4) + 1]])

-----------------------------------------------------------------------------
(* Claims about the half-float conversion *)

\* m1 * 2^e1 = m2 * 2^e2
SameValue(m1, e1, m2, e2) ==
    m1 * Pow2(e1 - Min(e1, e2)) = m2 * Pow2(e2 - Min(e1, e2))

\* the result is the finite, non-zero value (-1)^neg * m * 2^e
IsFinite(out, neg, m, e) ==
    out.kind = "finite" /\ out.neg = neg /\ SameValue(out.m, out.e, m, e)

\* C11: f16_to_f32 follows IEEE half-precision semantics on every 16-bit
\* pattern: exponent field 0 gives sign * 2^-14 * (mantissa/1024), a signed zero
\* for mantissa 0; exponent field 31 gives a signed infinity for mantissa 0 and
\* NaN otherwise; any other exponent e gives sign * 2^(e-15) * (1 + mantissa/1024);
\* 0x3C00 is 1.0, 0x0000 is 0.0, 0xC000 is -2.0, 0x7C00 and 0xFC00 are the infinities.
C11_HalfFloatSemantics ==
    f16_pc = "done" =>
        LET sign == f16_in \div 32768
            expo == (f16_in \div 1024) % 32
            mant == f16_in % 1024
        IN  /\ (expo = 0 /\ mant = 0) => f16_out.kind = "zero" /\ f16_out.neg = (sign = 1)
            /\ (expo = 0 /\ mant # 0) => IsFinite(f16_out, sign = 1, mant, -24)
            /\ (expo = 31 /\ mant = 0) => f16_out.kind = "inf" /\ f16_out.neg = (sign = 1)
            /\ (expo = 31 /\ mant # 0) => f16_out.kind = "nan"
            /\ (expo \in 1..30) => IsFinite(f16_out, sign = 1, 1024 + mant, expo - 25)
            /\ f16_in = 15360 => IsFinite(f16_out, FALSE, 1, 0)
            /\ f16_in = 0 => f16_out.kind = "zero" /\ ~f16_out.neg
            /\ f16_in = 49152 => IsFinite(f16_out, TRUE, 2, 0)
            /\ f16_in = 31744 => f16_out.kind = "inf" /\ ~f16_out.neg
            /\ f16_in = 64512 => f16_out.kind = "inf" /\ f16_out.neg

C11_Witness ==
    /\ f16_pc = "done"
    /\ f16_in = 49152
    /\ f16_out = [kind |-> "finite", neg |-> TRUE, m |-> 1024, e |-> -9]

-----------------------------------------------------------------------------
(* Further claims about the chunk scan *)

\* C12: every offset read while decoding an accepted match is smaller than the
\* buffer length, also when the stride is smaller than the bytes read for a
\* position; a match whose decode would read beyond the buffer is passed over
\* and the scan never aborts on an out-of-range read.
C12_ScanReadsInRange ==
    /\ \A k \in 1..Len(mdl_chunks) :
          /\ VertexReadEnd(mdl_bytes, mdl_chunks[k].header_off) <= Len(mdl_bytes)
          /\ IEnd(mdl_bytes, mdl_chunks[k].header_off) <= Len(mdl_bytes)
    /\ mdl_pc = "done" => mdl_result.tag # "Panic"

\* the index-array end of a recorded chunk, from its fields
ChunkEnd(ch) == ch.header_off + HeaderLen + ch.stride * ch.vcount + 2 * ch.icount

\* C13: the recorded chunks are in strictly increasing header offset order and
\* do not overlap: the cursor moved to each chunk's index-array end, so the next
\* chunk starts at or after it; every recorded chunk passes the signature test
\* at its header_off and its index-array end is not beyond the buffer.  The
\* result of a finished scan is this list.
C13_ChunksOrderedDisjoint ==
    /\ \A k \in 1..Len(mdl_chunks) :
          /\ SigOk(mdl_bytes, mdl_chunks[k].header_off)
          /\ mdl_chunks[k].fmt_tag \in {4, 5}
          /\ mdl_chunks[k].stride \in 4..64
          /\ ChunkEnd(mdl_chunks[k]) <= Len(mdl_bytes)
          /\ k < Len(mdl_chunks) =>
                /\ mdl_chunks[k].header_off < mdl_chunks[k + 1].header_off
                /\ ChunkEnd(mdl_chunks[k]) <= mdl_chunks[k + 1].header_off
    /\ mdl_chunks # <<>> =>
          /\ mdl_off >= ChunkEnd(mdl_chunks[Len(mdl_chunks)])
          /\ (mdl_off - ChunkEnd(mdl_chunks[Len(mdl_chunks)])) % ScanStride = 0
    /\ (mdl_pc = "done" /\ mdl_result.tag = "Ok") => mdl_result.v = mdl_chunks

C13_Witness ==
    /\ mdl_pc = "done"
    /\ mdl_result.tag = "Ok"
    /\ Len(mdl_result.v) = 2
    /\ mdl_result.v[1].icount = MaxIdx
    /\ mdl_result.v[1].header_off = 16
    /\ mdl_result.v[2].header_off = ChunkEnd(mdl_result.v[1])

-----------------------------------------------------------------------------
(* Further claims about the texture decoder *)

\* C14: when the data blob's length is not a multiple of 8 (it is decompressed
\* and decoded as BC5), the inference considers only the 16-byte footprint: an
\* accepted (top, mips) satisfies sum_bc_bytes(top, 16, mips) = decompressed
\* length, and a length matching only an 8-byte-footprint combination is not
\* accepted.
C14_CompressedInfersBc5Only ==
    (tfd_pc = "done" /\ tfd_len % 8 # 0 /\ tfd_guess.some) =>
        /\ tfd_guess.bpb = 16
        /\ sum_bc_bytes(tfd_guess.top, 16, tfd_guess.mips) = RawLen(tfd_len, tfd_z)

\* the header carries a usable dimension hint
HintValid(h) ==
    /\ Len(h) >= 164
    /\ LE32(h, 160) \in {64, 128, 256, 512, 1024, 2048, 4096, 8192}

\* some footprint and mip count reconcile the hinted dimension with the length
HintMatches(h, len) ==
    \E f \in {8, 16}, mp \in 1..9 : sum_bc_bytes(LE32(h, 160), f, mp) = len

\* C15: the header is consulted only when no (footprint, top, mips) candidate
\* matches the data length; its value at 0xA0 is used as the top dimension only
\* if the header has at least 0xA4 bytes and the value is a power of two in
\* [64, 8192]; decode then succeeds only if some footprint and mip count give
\* sum_bc_bytes(hint, footprint, mips) = data length (and does succeed for raw
\* data); in every other case decode fails with an inference failure.
C15_HeaderHintFallback ==
    (tfd_pc = "done" /\ ~(tfd_len % 8 # 0 /\ tfd_z.tag # "Ok")) =>
        LET len == RawLen(tfd_len, tfd_z)
        IN  /\ guess_from_tfd_len(len).some =>
                  /\ tfd_guess = guess_from_tfd_len(len)
                  /\ tfd_out = TfdDecode(tfd_len, tfd_z, <<>>)
            /\ ~guess_from_tfd_len(len).some =>
                  /\ tfd_out.tag = "Ok" =>
                        /\ HintValid(tfh) /\ HintMatches(tfh, len)
                        /\ tfd_out.v.width = LE32(tfh, 160)
                  /\ (HintValid(tfh) /\ HintMatches(tfh, len) /\ tfd_len % 8 = 0) =>
                        tfd_out.tag = "Ok"
                  /\ ~(HintValid(tfh) /\ HintMatches(tfh, len)) =>
                        tfd_out = Err("Cannot infer BC footprint/mips from TFD length")

C15_Witness ==
    /\ tfd_pc = "done"
    /\ tfd_in.mode = "raw" /\ tfd_in.top = 8192 /\ tfd_in.bpb = 8 /\ tfd_in.mips = 2
    /\ ~guess_from_tfd_len(tfd_len).some
    /\ Len(tfh) = 164 /\ LE32(tfh, 160) = 8192
    /\ tfd_guess = Some(8192, 2, 8)
    /\ tfd_out = Ok([width |-> 8192, height |-> 8192, rgba_len |-> 8192 * 8192 * 4])

-----------------------------------------------------------------------------
(* Further claims about the archive *)

\* the entry's size is at least 4 (a wrapped size is 2^32 minus a few bytes)
SizeAtLeast4(e) == e.size < 0 \/ e.size >= 4

\* the 4 bytes at the entry's start offset are 28 B5 2F FD
StartsWithMagic(e) ==
    /\ e.start + 4 <= Len(file_data)
    /\ SubSeq(file_data, e.start + 1, e.start + 4) = << 40, 181, 47, 253 >>

\* C16: parse classifies an entry Zstd exactly when its size is at least 4 and
\* the 4 bytes at its start offset are 28 B5 2F FD; every other entry, every
\* entry of size 0..3 included, is Raw; the classification does not change
\* after parse, and read_entry and extract_entry see the same one.
C16_CompressionClassification ==
    (grp_pc # "start" /\ pack.tag = "Ok") =>
        /\ \A i \in 1..Len(pack.v.entries) :
              LET e == pack.v.entries[i]
              IN  /\ e.compression \in {"Zstd", "Raw"}
                  /\ e.compression = "Zstd" <=> (SizeAtLeast4(e) /\ StartsWithMagic(e))
                  /\ e.size \in 0..3 => e.compression = "Raw"
        /\ pack.v.file_data = file_data
        /\ rd.entry # <<>> => \E i \in 1..Len(pack.v.entries) : rd.entry = pack.v.entries[i]
        /\ ex.pc # "idle" => \E i \in 1..Len(pack.v.entries) : ex.entry = pack.v.entries[i]

C16_Witness ==
    /\ grp_pc # "start" /\ pack.tag = "Ok"
    /\ grp_in.fault = "none" /\ grp_in.n = 2 /\ grp_in.z = 2
    /\ grp_in.sizes = << 0, MaxEntrySize >>
    /\ pack.v.entries[1].start = pack.v.entries[2].start
    /\ pack.v.entries[1].compression = "Raw"
    /\ pack.v.entries[2].compression = "Zstd"
    /\ rd.entry = pack.v.entries[2]

-----------------------------------------------------------------------------
(* Claims about the scan loop and the viewer *)

\* C17: the scan loop terminates on every finite buffer: an iteration moves the
\* cursor forward, by 16 on a mismatch or rejected match and to the index-array
\* end, at least cursor + 0x110, on an accepted chunk; the loop stops as soon as
\* fewer than 0x110 bytes remain at the cursor.
C17_ScanTerminates ==
    /\ <>(mdl_pc = "done")
    /\ [][ (mdl_pc = "scan" /\ mdl_pc' = "scan") =>
              \/ mdl_off' = mdl_off + 16 /\ mdl_chunks' = mdl_chunks
              \/ /\ mdl_off' >= mdl_off + 272
                 /\ Len(mdl_chunks') = Len(mdl_chunks) + 1
                 /\ mdl_off' = ChunkEnd(mdl_chunks'[Len(mdl_chunks')]) ]_vars
    /\ [][ (mdl_pc = "scan" /\ mdl_off + 272 > Len(mdl_bytes)) => mdl_pc' = "done" ]_vars
    /\ []( mdl_pc = "scan" => mdl_off <= Len(mdl_bytes) )

C17_Witness ==
    /\ mdl_pc = "done"
    /\ mdl_result.tag = "Ok"
    /\ mdl_in.c = 176 /\ mdl_in.after = 288
    /\ mdl_off + HeaderLen > Len(mdl_bytes)
    /\ mdl_off > ChunkEnd(mdl_result.v[1])
    /\ view_out.why = "not rendered"

\* C18: every returned chunk has exactly vcount vertices and floor(icount/3)
\* triangles, and every vertex index in a triangle is smaller than the vertex
\* count, so the viewer's lookup of each edge endpoint in its per-vertex screen
\* array is in range.
C18_TriangleIndicesInRange ==
    view_out.why # "not rendered" =>
        /\ \A k \in 1..Len(mdl_result.v) :
              LET ch == mdl_result.v[k]
              IN  /\ Len(ch.vertices) = ch.vcount
                  /\ Len(ch.indices) = ch.icount \div 3
                  /\ \A t \in 1..Len(ch.indices) : \A j \in 1..3 : ch.indices[t][j] < ch.vcount
        /\ view_out.tag = "Ok"

=============================================================================
